---- MODULE Spec2Model ----
(***************************************************************************)
(* Model of qq3.py: the tile level (Level), the player sprite (Player) and *)
(* the resource state machine of the game session (Game.main, Game.control *)
(* and its nested interact / potato_affect / timestop / potatogrow).       *)
(*                                                                         *)
(* One iteration of the main loop (lines 568-618) is modelled as three     *)
(* consecutive steps, recorded in pc:                                      *)
(*   "update"  - the per-tick transitions, lines 575-592                   *)
(*   "control" - the key poll and the walk / interact it starts, 594-596   *)
(*   "events"  - the event loop with the end-of-tick check, 610-616        *)
(***************************************************************************)
EXTENDS Integers, Sequences, FiniteSets

\* Sequencing: F applied to the value of v (v is evaluated once).
Then(v, F(_)) == CHOOSE r \in {F(x) : x \in {v}} : TRUE

\* ------------------------------------------------------------ constants

\* Motion offsets for the directions N, E, S, W (0..3 in the source).
DX == <<0, 1, 0, -1>>

DY == <<-1, 0, 1, 0>>

FPS == 15

\* Game.__init__
features == {"bush", "forward", "backward", "stop", "crate"}

InitPotato == 499

weightnum == 250

maxcapacity == 500

needed == 1000

InitDeadline == 365 * FPS

InitStoppedTime == 25 * FPS

\* timestop(): the value the countdown is reset to when it expires
ResetStoppedTime == 10 * FPS

\* interact(): costs and amounts
ForwardCost == 40

ForwardAmount == 5 * FPS

StopCost == 250

BackwardCost == 40

BackwardAmount == 15 * FPS

GrowTime == 20 * FPS

HarvestYield == 50

StopBonus == 50

\* potato_affect(): the time shift in seconds, the cap and the yield
ForwardShift == -5

BackwardShift == 20

AffectCap == 20

AffectYield == 200

\* the donation ladder starts here
LadderTop == 500

\* ---------------------------------------------------------------- level
(* The level file read by Level.load_file.  Rows of one-character symbols  *)
(* and one attribute section per symbol:                                   *)
(*    #  wall, blocking          .  ground            @  player spawn      *)
(*    K  crate   B  bush   F  forward   R  backward   S  stop              *)
(* Every item symbol has a sprite and blocks movement.                     *)
(*        x:  0 1 2 3 4 5 6 7                                              *)
(*      y=0   K B F R S B # #                                              *)
(*      y=1   . @ . . . . B .                                              *)
(*      y=2   # # # # # F # #                                              *)
LevelMap ==
  << <<"K", "B", "F", "R", "S", "B", "#", "#">>,
     <<".", "@", ".", ".", ".", ".", "B", ".">>,
     <<"#", "#", "#", "#", "#", "F", "#", "#">> >>

Sections == {"#", ".", "@", "K", "B", "F", "R", "S"}

\* The attribute section of a symbol; "" stands for an attribute not given.
Key(c) ==
  [wall   |-> IF c = "#" THEN "true" ELSE "",
   block  |-> IF c \in {"#", "K", "B", "F", "R", "S"} THEN "true" ELSE "",
   sprite |-> IF c \in {"@", "K", "B", "F", "R", "S"} THEN c ELSE "",
   name   |-> CASE c = "K" -> "crate"
                [] c = "B" -> "bush"
                [] c = "F" -> "forward"
                [] c = "R" -> "backward"
                [] c = "S" -> "stop"
                [] c = "@" -> "player"
                [] OTHER   -> "",
   player |-> IF c = "@" THEN "true" ELSE ""]

NoAttrs == [wall |-> "", block |-> "", sprite |-> "", name |-> "", player |-> ""]

Width == Len(LevelMap[1])

Height == Len(LevelMap)

\* Level.get_tile, lines 268-271: self.key[char], KeyError giving {}
KeyOrEmpty(char) == IF char \in Sections THEN Key(char) ELSE NoAttrs

\* Level.get_tile, lines 264-267: row[x], IndexError giving {}.  A Python
\* index below zero counts from the end of the row.
TileInRow(row, x) ==
  IF x >= Len(row) \/ x < -Len(row) THEN NoAttrs
  ELSE KeyOrEmpty(row[IF x < 0 THEN x + Len(row) + 1 ELSE x + 1])

\* Level.get_tile: coordinates are 0-based; an index below zero counts from
\* the end of the map, an index past the end is IndexError.
get_tile(x, y) ==
  IF y >= Height \/ y < -Height THEN NoAttrs
  ELSE TileInRow(LevelMap[IF y < 0 THEN y + Height + 1 ELSE y + 1], x)

TrueLiterals == {"true", "yes", "True", "Yes", "1", "on", "On"}

\* tile.get(name)
Attr(tile, name) ==
  CASE name = "wall"  -> tile.wall
    [] name = "block" -> tile.block
    [] OTHER          -> ""

get_bool(x, y, name) == Attr(get_tile(x, y), name) \in TrueLiterals

is_wall(x, y) == get_bool(x, y, "wall")

is_blocking(x, y) ==
  IF ~(0 <= x /\ x < Width) \/ ~(0 <= y /\ y < Height) THEN TRUE
  ELSE get_bool(x, y, "block")

\* Level.load_file, lines 204-207: the items in the order they are inserted,
\* row by row; each is <<x, y, symbol>>.
ItemAt(x, y, c) ==
  IF ~is_wall(x, y) /\ Key(c).sprite # "" THEN << <<x, y, c>> >> ELSE <<>>

RECURSIVE ItemsFrom(_)
ItemsFrom(n) ==
  IF n >= Width * Height THEN <<>>
  ELSE ItemAt(n % Width, n \div Width, LevelMap[(n \div Width) + 1][(n % Width) + 1])
       \o ItemsFrom(n + 1)

Items == ItemsFrom(0)

\* use_level / around: the four cells next to an item
around(x, y) == {<<x + 1, y>>, <<x - 1, y>>, <<x, y + 1>>, <<x, y - 1>>}

\* self.interact: one [name, place] per item whose name is a feature
Zone(it) == [name |-> Key(it[3]).name, place |-> around(it[1], it[2])]

Interact ==
  Then(SelectSeq(Items, LAMBDA it : Key(it[3]).name \in features),
       LAMBDA feat : [k \in 1..Len(feat) |-> Zone(feat[k])])

\* the places of self.bushstuff, in the same order
BushPlaces ==
  Then(SelectSeq(Interact, LAMBDA z : z.name = "bush"),
       LAMBDA b : [k \in 1..Len(b) |-> b[k].place])

NBush == Len(BushPlaces)

IdleBush == [is_done |-> FALSE, timeleft |-> -1]

\* the spawn cell: the item marked player
Spawn ==
  Then(SelectSeq(Items, LAMBDA it : Key(it[3]).player \in {"true", "1", "yes", "on"}),
       LAMBDA p : <<p[Len(p)][1], p[Len(p)][2]>>)

\* The Level object of a running game: LevelMap, loaded.
LevelInUse == [phase |-> "game"]

\* ---------------------------------------------------------------- state

VARIABLES
  potato,           \* self.potato: the stock
  weight,           \* self.weight
  donation,         \* self.donation
  deadline,         \* self.deadline
  stoppedtime,      \* self.stoppedtime: the stop-countdown
  is_time_stopped,  \* self.is_time_stopped
  bushstuff,        \* self.bushstuff: [is_done, timeleft] per bush
  px, py,           \* self.player.rect.midbottom
  direction,        \* self.player.direction
  animation,        \* self.player.animation: the walk generator, or none
  game_over,        \* self.game_over
  crashed,          \* an exception has left main()
  pc,               \* the position in the main loop
  keys,             \* the keys polled by the last control step
  ticks,            \* loop iterations made since the initial state
  lv                \* the Level object: its source, load_file and render

vars == <<potato, weight, donation, deadline, stoppedtime, is_time_stopped,
          bushstuff, px, py, direction, animation, game_over, crashed,
          pc, keys, ticks, lv>>

\* The fields of the Game object (and of its Player) as one record.
Cur ==
  [potato |-> potato, weight |-> weight, donation |-> donation,
   deadline |-> deadline, stoppedtime |-> stoppedtime,
   is_time_stopped |-> is_time_stopped, bushstuff |-> bushstuff,
   px |-> px, py |-> py, direction |-> direction, animation |-> animation,
   game_over |-> game_over, crashed |-> crashed]

NoAnimation == [on |-> FALSE, mult |-> 0, calls |-> 0]

\* Game.__init__ and use_level: the game as constructed.
Start ==
  [potato |-> InitPotato, weight |-> FALSE, donation |-> 0,
   deadline |-> InitDeadline, stoppedtime |-> InitStoppedTime,
   is_time_stopped |-> FALSE,
   bushstuff |-> [k \in 1..NBush |-> IdleBush],
   px |-> Spawn[1] * 24 + 12, py |-> Spawn[2] * 16 + 16,
   direction |-> 2, animation |-> NoAnimation,
   game_over |-> FALSE, crashed |-> FALSE]

\* Sprite._get_pos
pos(s) == <<(s.px - 12) \div 24, (s.py - 16) \div 16>>

\* ------------------------------------------------- per-tick transitions

\* main.timestop
timestop(s) ==
  IF s.stoppedtime = 0
  THEN [s EXCEPT !.is_time_stopped = FALSE, !.stoppedtime = ResetStoppedTime]
  ELSE [s EXCEPT !.stoppedtime = @ - 1]

\* A faulty variant of GrowOne: the timer is not tested to be above 0.
GrowOneBelowZero(j) ==
  Then(IF j.is_done = FALSE THEN [j EXCEPT !.timeleft = @ - 1] ELSE j,
       LAMBDA j1 : IF j1.timeleft = 0 /\ j1.is_done # TRUE
                   THEN [j1 EXCEPT !.is_done = TRUE] ELSE j1)

\* A faulty variant of GrowOne: a timer that reaches 0 is not marked grown.
GrowOneUnmarked(j) ==
  IF j.is_done = FALSE /\ j.timeleft > 0 THEN [j EXCEPT !.timeleft = @ - 1] ELSE j

\* main.potatogrow, the body of its loop for one bush
GrowOne(j) ==
  Then(IF j.is_done = FALSE /\ j.timeleft > 0 THEN [j EXCEPT !.timeleft = @ - 1] ELSE j,
       LAMBDA j1 : IF j1.timeleft = 0 /\ j1.is_done # TRUE
                   THEN [j1 EXCEPT !.is_done = TRUE] ELSE j1)

potatogrow(s) ==
  [s EXCEPT !.bushstuff = [k \in 1..NBush |-> GrowOne(s.bushstuff[k])]]

\* A faulty variant of DeadlineTick: the time-stop flag is not tested.
DeadlineTickAlways(s) ==
  IF s.deadline # 0 THEN [s EXCEPT !.deadline = @ - 1] ELSE s

\* main, lines 580-581
DeadlineTick(s) ==
  IF s.deadline # 0 /\ s.is_time_stopped = FALSE
  THEN [s EXCEPT !.deadline = @ - 1] ELSE s

\* Sprite.move
move(s, dx, dy) == [s EXCEPT !.px = @ + dx, !.py = @ + dy]

\* Player.update with Player.walk_animation: one next() of the generator.
\* The first next() only sets the image; each of the next eight moves the
\* rect, and the ninth ends the generator.

PlayerUpdate(s) ==
  IF ~s.animation.on THEN s
  ELSE IF s.animation.calls = 0 THEN [s EXCEPT !.animation.calls = 1]
  ELSE Then(move(s, 3 * s.animation.mult * DX[s.direction + 1],
                    2 * s.animation.mult * DY[s.direction + 1]),
            LAMBDA moved : IF s.animation.calls = 8
                           THEN [moved EXCEPT !.animation = NoAnimation]
                           ELSE [moved EXCEPT !.animation.calls = @ + 1])

\* main, lines 575-592
UpdateFn(s) ==
  Then(IF s.is_time_stopped = TRUE THEN timestop(s) ELSE s, LAMBDA s1 :
  Then(DeadlineTick(s1), LAMBDA s2 :
  Then([s2 EXCEPT !.weight = (s2.potato >= weightnum)], LAMBDA s3 :
  Then(IF s3.is_time_stopped = FALSE THEN potatogrow(s3) ELSE s3, LAMBDA s4 :
  PlayerUpdate(s4)))))

\* ------------------------------------------------------------- control

\* A faulty variant of Multiplier: the multiplier is kept when the multiplied
\* destination is blocking.
MultiplierKept(s, x, y, d, is_run) ==
  IF is_run = TRUE /\ s.is_time_stopped = TRUE THEN 3
  ELSE IF is_run = TRUE THEN 2 ELSE 1

\* control.walk, lines 374-380: the multiplier the walk is made with
Multiplier(s, x, y, d, is_run) ==
  Then(IF is_run = TRUE /\ s.is_time_stopped = TRUE THEN 3
       ELSE IF is_run = TRUE THEN 2 ELSE 1,
       LAMBDA m : IF is_blocking(x + m * DX[d + 1], y + m * DY[d + 1]) THEN 1 ELSE m)

\* control.walk
walk(s, d, is_run) ==
  Then(pos(s), LAMBDA p :
    IF ~is_blocking(p[1] + DX[d + 1], p[2] + DY[d + 1])
    THEN [s EXCEPT !.direction = d,
                   !.animation = [on |-> TRUE,
                                  mult |-> Multiplier(s, p[1], p[2], d, is_run),
                                  calls |-> 0]]
    ELSE [s EXCEPT !.direction = d])

(* interact() works on the game and on its own local variable bonus, which   *)
(* is unbound until the bush branch assigns it: w = [g, bound, bonus].  A    *)
(* read of the unbound bonus raises NameError, which leaves main(): the      *)
(* assignments made before it stay, g.crashed is set and nothing more runs.  *)

\* A faulty variant of AffectOne: the shifted timer is not tested against
\* the cap.
AffectOneUncapped(w, k, time) ==
  IF w.g.crashed \/ ~(w.g.bushstuff[k].timeleft > 0) THEN w
  ELSE Then([w EXCEPT !.g.bushstuff[k].timeleft = @ + time * FPS], LAMBDA w1 :
         IF w1.g.bushstuff[k].timeleft <= 0
         THEN IF ~w.bound THEN [w1 EXCEPT !.g.crashed = TRUE]
              ELSE [w1 EXCEPT !.g.potato = @ + AffectYield + w.bonus,
                              !.g.bushstuff[k] = IdleBush]
         ELSE w1)

\* interact.potato_affect, the body of its loop for bush k
AffectOne(w, k, time) ==
  IF w.g.crashed \/ ~(w.g.bushstuff[k].timeleft > 0) THEN w
  ELSE Then([w EXCEPT !.g.bushstuff[k].timeleft = @ + time * FPS], LAMBDA w1 :
         IF w1.g.bushstuff[k].timeleft <= 0
         THEN IF ~w.bound THEN [w1 EXCEPT !.g.crashed = TRUE]
              ELSE [w1 EXCEPT !.g.potato = @ + AffectYield + w.bonus,
                              !.g.bushstuff[k] = IdleBush]
         ELSE IF w1.g.bushstuff[k].timeleft > AffectCap
         THEN [w1 EXCEPT !.g.bushstuff[k] = IdleBush]
         ELSE w1)

RECURSIVE AffectFrom(_, _, _)
AffectFrom(w, k, time) ==
  IF k > NBush THEN w
  ELSE Then(AffectOne(w, k, time), LAMBDA w1 : AffectFrom(w1, k + 1, time))

potato_affect(w, effect) ==
  Then(w, LAMBDA w0 :
    AffectFrom(w0, 1, IF effect = TRUE THEN ForwardShift ELSE BackwardShift))

\* A faulty variant of ForwardBranch: the stock is not tested against the cost.
ForwardBranchUnpaid(w, i, p) ==
  IF p \in i.place /\ i.name = "forward"
  THEN potato_affect([w EXCEPT !.g.deadline = @ - ForwardAmount,
                               !.g.potato = @ - ForwardCost], TRUE)
  ELSE w

\* interact, lines 406-413
ForwardBranch(w, i, p) ==
  IF p \in i.place /\ i.name = "forward" /\ w.g.potato >= ForwardCost
  THEN potato_affect([w EXCEPT !.g.deadline = @ - ForwardAmount,
                               !.g.potato = @ - ForwardCost], TRUE)
  ELSE w

\* interact, lines 414-420
StopBranch(w, i, p) ==
  IF p \in i.place /\ i.name = "stop" /\ w.g.is_time_stopped = FALSE
     /\ w.g.potato >= StopCost
  THEN [w EXCEPT !.g.is_time_stopped = TRUE, !.g.potato = @ - StopCost]
  ELSE w

\* interact, lines 421-428
BackwardBranch(w, i, p) ==
  IF p \in i.place /\ i.name = "backward" /\ w.g.potato >= BackwardCost
  THEN potato_affect([w EXCEPT !.g.deadline = @ + BackwardAmount,
                               !.g.potato = @ - BackwardCost], FALSE)
  ELSE w

\* interact, lines 433-435: the last bush whose place holds the player's cell
BushIndex(p) ==
  CHOOSE k \in 1..NBush :
    p \in BushPlaces[k] /\ \A k2 \in 1..NBush : p \in BushPlaces[k2] => k2 <= k

\* A faulty variant of BushAct: a bush is harvested whenever it is planted,
\* grown or not.
BushActEarly(w, bush) ==
  IF w.g.bushstuff[bush].is_done = FALSE /\ w.g.bushstuff[bush].timeleft < 0
  THEN [w EXCEPT !.g.bushstuff[bush].timeleft = GrowTime]
  ELSE [w EXCEPT !.g.potato = @ + HarvestYield + w.bonus,
                 !.g.bushstuff[bush] = IdleBush]

\* interact, lines 437-449: plant, harvest or report on self.bushstuff[bush]
BushAct(w, bush) ==
  IF w.g.bushstuff[bush].is_done = FALSE /\ w.g.bushstuff[bush].timeleft < 0
  THEN [w EXCEPT !.g.bushstuff[bush].timeleft = GrowTime]
  ELSE IF w.g.bushstuff[bush].is_done = TRUE /\ w.g.bushstuff[bush].timeleft = 0
  THEN [w EXCEPT !.g.potato = @ + HarvestYield + w.bonus,
                 !.g.bushstuff[bush] = IdleBush]
  ELSE w

\* A faulty variant of BushBranch: the stock is not tested against the
\* capacity.
BushBranchUncapped(w, i, p) ==
  IF p \in i.place /\ i.name = "bush"
  THEN Then([w EXCEPT !.bound = TRUE,
                      !.bonus = IF w.g.is_time_stopped = TRUE THEN StopBonus ELSE 0],
            LAMBDA w1 : BushAct(w1, BushIndex(p)))
  ELSE w

\* interact, lines 429-436
BushBranch(w, i, p) ==
  IF p \in i.place /\ w.g.potato >= 0 /\ maxcapacity > w.g.potato /\ i.name = "bush"
  THEN Then([w EXCEPT !.bound = TRUE,
                      !.bonus = IF w.g.is_time_stopped = TRUE THEN StopBonus ELSE 0],
            LAMBDA w1 : BushAct(w1, BushIndex(p)))
  ELSE w

\* interact, lines 452-459: the donation ladder
RECURSIVE Coef(_, _)
Coef(stock, maximum) ==
  IF maximum = 0 THEN 0
  ELSE IF stock >= maximum THEN maximum
  ELSE Coef(stock, maximum \div 2)

\* interact, lines 451-461
HouseBranch(w, i, p) ==
  IF p \in i.place /\ w.g.potato > 0 /\ i.name = "house"
  THEN Then(Coef(w.g.potato, LadderTop),
            LAMBDA coef : [w EXCEPT !.g.potato = @ - coef, !.g.donation = @ + coef])
  ELSE w

\* One pass of the loop over self.interact, lines 405-461.
ZoneStep(w, i, p) ==
  Then(ForwardBranch(w, i, p), LAMBDA w1 :
  Then(IF w1.g.crashed THEN w1 ELSE StopBranch(w1, i, p), LAMBDA w2 :
  Then(IF w2.g.crashed THEN w2 ELSE BackwardBranch(w2, i, p), LAMBDA w3 :
  Then(IF w3.g.crashed THEN w3 ELSE BushBranch(w3, i, p), LAMBDA w4 :
  IF w4.g.crashed THEN w4 ELSE HouseBranch(w4, i, p)))))

RECURSIVE InteractFrom(_, _, _)
InteractFrom(w, n, p) ==
  IF n > Len(Interact) \/ w.g.crashed THEN w
  ELSE Then(ZoneStep(w, Interact[n], p), LAMBDA w1 : InteractFrom(w1, n + 1, p))

\* control.interact
interact(s) ==
  Then([g |-> s, bound |-> FALSE, bonus |-> 0], LAMBDA w : InteractFrom(w, 1, pos(s)).g)

\* What control() polls: the first held key of its elif chain, and shift.
NoKeys == [key |-> "none", shift |-> FALSE]

KeyInputs ==
  {[key |-> k, shift |-> FALSE] : k \in {"none", "up", "down", "left", "right", "e"}}
  \cup {[key |-> k, shift |-> TRUE] : k \in {"up", "down", "left", "right"}}

\* control, lines 467-469: is_run
IsRun(s, in) ==
  (in.shift /\ s.weight = FALSE) \/ (in.shift /\ s.is_time_stopped = TRUE)

\* the direction of a direction key
KeyDir(k) ==
  CASE k = "up" -> 0 [] k = "right" -> 1 [] k = "down" -> 2 [] k = "left" -> 3

\* Game.control, lines 466-487
control(s, in) ==
  IF in.key \in {"up", "down", "left", "right"} THEN walk(s, KeyDir(in.key), IsRun(s, in))
  ELSE IF in.key = "e" THEN interact(s)
  ELSE s

\* main, lines 594-596
ControlFn(s, in) ==
  IF ~s.animation.on
  THEN Then(control(s, in), LAMBDA s1 : IF s1.crashed THEN s1 ELSE PlayerUpdate(s1))
  ELSE s

\* What pygame.event.get() returns in a tick: nothing, events none of which
\* is QUIT, or events with a QUIT among them.
EventInputs == {"none", "key", "quit"}

\* main, lines 610-616
EventsFn(s, ev) ==
  IF ev = "none" THEN s
  ELSE IF (s.deadline = 0 /\ needed # 0) \/ ev = "quit"
  THEN [s EXCEPT !.game_over = TRUE]
  ELSE s

\* ----------------------------------------------------- the main loop

\* One whole iteration of the loop with the given keys held and no event.
TickFn(s, in) ==
  Then(UpdateFn(s), LAMBDA s1 :
  Then(ControlFn(s1, in), LAMBDA s2 : EventsFn(s2, "none")))

\* n iterations with no key held and no event.
RECURSIVE IdleN(_, _)
IdleN(s, n) ==
  IF n = 0 THEN s
  ELSE IF n = 1 THEN TickFn(s, NoKeys)
  ELSE Then(IdleN(s, n \div 2), LAMBDA h : IdleN(h, n - (n \div 2)))

(* A play prefix is a sequence of segments [in, idle]: one iteration with   *)
(* the keys in held, then idle iterations with no key.  A walk of one cell  *)
(* is a direction key followed by 8 idle iterations.                        *)
RECURSIVE Play(_, _)
Play(s, prefix) ==
  IF prefix = <<>> THEN s
  ELSE Then(TickFn(s, Head(prefix).in), LAMBDA t :
       Then(IdleN(t, Head(prefix).idle), LAMBDA i : Play(i, Tail(prefix))))

Seg(k, n) == [in |-> [key |-> k, shift |-> FALSE], idle |-> n]

Right(cells) == [k \in 1..cells |-> Seg("right", 8)]

Left(cells) == [k \in 1..cells |-> Seg("left", 8)]

Times(k, n) == [j \in 1..n |-> Seg(k, 0)]

\* The play prefixes the initial states are taken after.  The spawn cell
\* (1,1) is next to bush 1; the cells to its right are next to forward (2,1),
\* backward (3,1), stop (4,1) and to bush 2, bush 3 and forward (5,1).
Prefixes ==
  { <<>>,
    \* a bush planted at the spawn cell and partly or fully grown
    <<Seg("e", 200)>>, <<Seg("e", 218)>>, <<Seg("e", 298)>>,
    \* time stopped at (4,1), the countdown about to expire
    Right(3) \o <<Seg("e", 374)>>,
    \* time stopped at (4,1), then a step right to (5,1)
    Right(3) \o <<Seg("e", 0)>> \o Right(1),
    \* bush 1 planted, then time stopped at (4,1)
    <<Seg("e", 0)>> \o Right(3) \o <<Seg("e", 0)>>,
    \* bush 1 growing or grown, the player at (3,1)
    <<Seg("e", 0)>> \o Right(2), <<Seg("e", 298)>> \o Right(2),
    \* the stock nearly spent at (2,1)
    Right(1) \o Times("e", 11),
    \* bush 1 grown, time stopped at (4,1), the player back at (1,1)
    <<Seg("e", 298)>> \o Right(3) \o <<Seg("e", 0)>> \o Left(3),
    \* the stock below every cost, the player at (5,1)
    Right(1) \o Times("e", 12) \o Right(3),
    \* the deadline nearly over
    <<Seg("none", InitDeadline - 5 * FPS)>>,
    <<Seg("none", InitDeadline - 3)>> }

\* the number of loop iterations explored after the prefix
MaxTicks == 11

Set(s) ==
  /\ potato' = s.potato
  /\ weight' = s.weight
  /\ donation' = s.donation
  /\ deadline' = s.deadline
  /\ stoppedtime' = s.stoppedtime
  /\ is_time_stopped' = s.is_time_stopped
  /\ bushstuff' = s.bushstuff
  /\ px' = s.px
  /\ py' = s.py
  /\ direction' = s.direction
  /\ animation' = s.animation
  /\ game_over' = s.game_over
  /\ crashed' = s.crashed

Init ==
  \E prefix \in Prefixes : \E s \in {Play(Start, prefix)} :
       /\ potato = s.potato
       /\ weight = s.weight
       /\ donation = s.donation
       /\ deadline = s.deadline
       /\ stoppedtime = s.stoppedtime
       /\ is_time_stopped = s.is_time_stopped
       /\ bushstuff = s.bushstuff
       /\ px = s.px
       /\ py = s.py
       /\ direction = s.direction
       /\ animation = s.animation
       /\ game_over = s.game_over
       /\ crashed = s.crashed
       /\ pc = "update"
       /\ keys = NoKeys
       /\ ticks = 0
       /\ lv = LevelInUse

\* main, lines 568-592: the loop test and the per-tick transitions
Update ==
  /\ pc = "update"
  /\ ~game_over
  /\ ticks < MaxTicks
  /\ \E s \in {UpdateFn(Cur)} : Set(s)
  /\ pc' = "control"
  /\ UNCHANGED <<keys, ticks, lv>>

\* main, lines 594-596, the player standing: control() polls the keys
Control ==
  /\ pc = "control"
  /\ ~animation.on
  /\ \E in \in KeyInputs :
       /\ \E s \in {ControlFn(Cur, in)} :
            /\ Set(s)
            /\ pc' = IF s.crashed THEN "crashed" ELSE "events"
       /\ keys' = in
  /\ UNCHANGED <<ticks, lv>>

\* main, line 594, the walk animation running: control() is not called
ControlSkip ==
  /\ pc = "control"
  /\ animation.on
  /\ \E s \in {ControlFn(Cur, NoKeys)} : Set(s)
  /\ pc' = "events"
  /\ UNCHANGED <<keys, ticks, lv>>

\* main, lines 610-618: the events of the tick and the end-of-tick check
Events ==
  /\ pc = "events"
  /\ \E ev \in EventInputs : \E s \in {EventsFn(Cur, ev)} : Set(s)
  /\ pc' = "update"
  /\ keys' = NoKeys
  /\ ticks' = ticks + 1
  /\ UNCHANGED lv

Next == Update \/ Control \/ ControlSkip \/ Events

Spec == Init /\ [][Next]_vars

\* ------------------------------------------- the loop while time is stopped
(* The main loop followed through a time-stop to its end.  The initial      *)
(* states are states of a session in which a stop interaction was made at   *)
(* (4,1) and the stop-countdown has 1..MaxStopLeft + 1 ticks to go, with    *)
(* the player still at (4,1) or walked on to (5,1), next to a forward item   *)
(* and two bushes, or, bush 1 having been planted before the stop, walked  *)
(* back to (2,1), next to a forward item only.  The loop is followed for    *)
(* MaxTicks iterations and, past them, for as long as time is stopped.      *)
MaxStopLeft == 6

LivePrefixes ==
  {Right(3) \o <<Seg("e", InitStoppedTime - 1 - k)>> : k \in 0..MaxStopLeft}
    \cup {Right(3) \o <<Seg("e", 0)>> \o Right(1)
            \o <<Seg("none", InitStoppedTime - 11 - k)>> : k \in 0..MaxStopLeft}
    \cup {<<Seg("e", 230)>> \o Right(3) \o <<Seg("e", 0)>> \o Left(2)
            \o <<Seg("none", InitStoppedTime - 20 - k)>> : k \in 0..MaxStopLeft}

InitLive ==
  \E prefix \in LivePrefixes : \E s \in {Play(Start, prefix)} :
       /\ potato = s.potato
       /\ weight = s.weight
       /\ donation = s.donation
       /\ deadline = s.deadline
       /\ stoppedtime = s.stoppedtime
       /\ is_time_stopped = s.is_time_stopped
       /\ bushstuff = s.bushstuff
       /\ px = s.px
       /\ py = s.py
       /\ direction = s.direction
       /\ animation = s.animation
       /\ game_over = s.game_over
       /\ crashed = s.crashed
       /\ pc = "update"
       /\ keys = NoKeys
       /\ ticks = 0
       /\ lv = LevelInUse

\* main, lines 568-592, as Update
UpdateLive ==
  /\ pc = "update"
  /\ ~game_over
  /\ ticks < MaxTicks \/ is_time_stopped = TRUE
  /\ \E s \in {UpdateFn(Cur)} : Set(s)
  /\ pc' = "control"
  /\ UNCHANGED <<keys, ticks, lv>>

NextLive == UpdateLive \/ Control \/ ControlSkip \/ Events

\* The loop is one thread that runs until game_over or an exception: an
\* iteration that can be made is made.
SpecLive == InitLive /\ [][NextLive]_vars /\ WF_vars(NextLive)

\* ------------------------------------------------- loading a save record

(* The save record and its loading are not part of qq3.py, which only keeps *)
(* self.save = [] (line 317).  They are modelled from the description of the *)
(* save record: three integers, stock, donation and deadline, which loading  *)
(* writes over the three counters.  The records are ones a session can have  *)
(* written; loading is a key handled by control().                           *)
SaveRecords ==
  { [stock |-> 0, donation |-> needed, deadline |-> InitDeadline - 20 * FPS],
    [stock |-> InitPotato, donation |-> needed \div 2, deadline |-> 2],
    [stock |-> InitPotato, donation |-> 0, deadline |-> InitDeadline] }

\* the loop iterations in which a load is explored
MaxLoadTicks == 1

LoadSave ==
  /\ pc = "control"
  /\ ~animation.on
  /\ ticks < MaxLoadTicks
  /\ \E r \in SaveRecords :
       /\ potato' = r.stock
       /\ donation' = r.donation
       /\ deadline' = r.deadline
  /\ pc' = "events"
  /\ keys' = NoKeys
  /\ UNCHANGED <<weight, stoppedtime, is_time_stopped, bushstuff, px, py,
                 direction, animation, game_over, crashed, ticks, lv>>

NextLoad == Update \/ Control \/ ControlSkip \/ Events \/ LoadSave

SpecLoad == Init /\ [][NextLoad]_vars

\* ------------------------------------------------- loading and drawing
(* Level.load_file and Level.render on level files other than LevelMap.    *)
(* A level file is a record: whether the [level] section gives a tileset,  *)
(* whether it gives a map, and the rows of the map.  The one-character     *)
(* sections are Sections with the attributes of Key: no section gives a    *)
(* tile attribute, and "?" is a symbol without a section.                  *)
GridWidth == 3

GridHeight == 2

\* the rectangular maps of walls and ground
Grids == [1..GridHeight -> [1..GridWidth -> {"#", "."}]]

\* the map with the middle cell of the first row replaced by the symbol c
WithSymbol(g, c) == [g EXCEPT ![1][2] = c]

\* the map with the last cell of the last row left out
Ragged(g) == [g EXCEPT ![GridHeight] = SubSeq(g[GridHeight], 1, GridWidth - 1)]

File(rows) == [tileset |-> TRUE, hasmap |-> TRUE, rows |-> rows]

LevelSources ==
  {File(g) : g \in Grids}
    \cup {File(WithSymbol(g, c)) : g \in Grids, c \in {"?", "B"}}
    \cup {File(Ragged(g)) : g \in Grids}
    \cup { [tileset |-> FALSE, hasmap |-> TRUE, rows |-> << <<"#", ".", "#">> >>],
           [tileset |-> TRUE, hasmap |-> FALSE, rows |-> <<>>] }

\* Level.get_tile on a given self.map
MapTile(map, x, y) ==
  IF y >= Len(map) \/ y < -Len(map) THEN NoAttrs
  ELSE TileInRow(map[IF y < 0 THEN y + Len(map) + 1 ELSE y + 1], x)

\* Level.is_wall on a given self.map
MapWall(map, x, y) == Attr(MapTile(map, x, y), "wall") \in TrueLiterals

\* the cells enumerate(self.map) / enumerate(line) visit, 0-based
Cells(map) == {<<x, y>> \in (0..(GridWidth + 1)) \X (0..(GridHeight + 1)) :
                 y < Len(map) /\ x < Len(map[y + 1])}

Symbol(map, cell) == map[cell[2] + 1][cell[1] + 1]

\* Level.load_file, line 206: self.key[c] is evaluated at every cell that is
\* not a wall, and raises KeyError for a symbol without a section.
LoadRaises(map) ==
  \E cell \in Cells(map) :
     ~MapWall(map, cell[1], cell[2]) /\ Symbol(map, cell) \notin Sections

\* Level.load_file, lines 204-207: the keys of self.items
MapItems(map) ==
  {cell \in Cells(map) :
     /\ ~MapWall(map, cell[1], cell[2])
     /\ Symbol(map, cell) \in Sections
     /\ Key(Symbol(map, cell)).sprite # ""}

NoLevel ==
  [status |-> "", map |-> <<>>, width |-> 0, height |-> 0, items |-> {},
   tiles |-> <<>>, overlays |-> <<>>]

\* Level.load_file: parser.get raises NoOptionError for a missing option.
load_file(src) ==
  IF ~src.tileset \/ ~src.hasmap THEN [NoLevel EXCEPT !.status = "NoOptionError"]
  ELSE IF LoadRaises(src.rows)
         THEN [NoLevel EXCEPT !.status = "KeyError", !.map = src.rows,
                              !.width = Len(src.rows[1]), !.height = Len(src.rows)]
         ELSE [NoLevel EXCEPT !.status = "loaded", !.map = src.rows,
                              !.width = Len(src.rows[1]), !.height = Len(src.rows),
                              !.items = MapItems(src.rows)]

\* Level.render: the column of the wall variant in the tileset, by the two
\* walls looked up.
Variant(e, w) == IF e /\ w THEN 1 ELSE IF e THEN 0 ELSE IF w THEN 2 ELSE 3

\* render choosing the variant by the east and west cells of the wall's own
\* row whatever the south cell is
WallTileSameRow(map, x, y) ==
  <<Variant(MapWall(map, x + 1, y), MapWall(map, x - 1, y)),
    IF ~MapWall(map, x, y + 1) THEN 2 ELSE 1>>

\* Level.render, lines 220-237: the tile of a wall cell
WallTile(map, x, y) ==
  IF ~MapWall(map, x, y + 1)
    THEN <<Variant(MapWall(map, x + 1, y), MapWall(map, x - 1, y)), 2>>
    ELSE <<Variant(MapWall(map, x + 1, y + 1), MapWall(map, x - 1, y + 1)), 1>>

\* Level.render, lines 250-255: no section gives a tile, so KeyError
GroundTile == <<0, 3>>

RenderTile(map, x, y) ==
  IF MapWall(map, x, y) THEN WallTile(map, x, y) ELSE GroundTile

\* Level.render, lines 239-248
OverlayCells(map) ==
  {cell \in Cells(map) :
     MapWall(map, cell[1], cell[2]) /\ ~MapWall(map, cell[1], cell[2] - 1)}

OverTile(map, x, y) ==
  <<Variant(MapWall(map, x + 1, y), MapWall(map, x - 1, y)), 0>>

LevelFields(phase, src, l) ==
  [phase |-> phase, src |-> src, status |-> l.status, map |-> l.map,
   width |-> l.width, height |-> l.height, items |-> l.items,
   tiles |-> l.tiles, overlays |-> l.overlays]

InitLevel ==
  /\ \E src \in LevelSources : lv = LevelFields("source", src, NoLevel)
  /\ potato = Start.potato
  /\ weight = Start.weight
  /\ donation = Start.donation
  /\ deadline = Start.deadline
  /\ stoppedtime = Start.stoppedtime
  /\ is_time_stopped = Start.is_time_stopped
  /\ bushstuff = Start.bushstuff
  /\ px = Start.px
  /\ py = Start.py
  /\ direction = Start.direction
  /\ animation = Start.animation
  /\ game_over = Start.game_over
  /\ crashed = Start.crashed
  /\ pc = "level"
  /\ keys = NoKeys
  /\ ticks = 0

\* Level(filename): the constructor runs load_file.
LoadFile ==
  /\ pc = "level"
  /\ lv.phase = "source"
  /\ lv' = LevelFields("loaded", lv.src, load_file(lv.src))
  /\ UNCHANGED <<potato, weight, donation, deadline, stoppedtime,
                 is_time_stopped, bushstuff, px, py, direction, animation,
                 game_over, crashed, pc, keys, ticks>>

\* Level.render on a level that load_file built
Render ==
  /\ pc = "level"
  /\ lv.phase = "loaded"
  /\ lv.status = "loaded"
  /\ lv' = [lv EXCEPT !.phase = "rendered",
                      !.tiles = [cell \in Cells(lv.map) |->
                                   RenderTile(lv.map, cell[1], cell[2])],
                      !.overlays = [cell \in OverlayCells(lv.map) |->
                                      OverTile(lv.map, cell[1], cell[2])]]
  /\ UNCHANGED <<potato, weight, donation, deadline, stoppedtime,
                 is_time_stopped, bushstuff, px, py, direction, animation,
                 game_over, crashed, pc, keys, ticks>>

NextLevel == LoadFile \/ Render

SpecLevel == InitLevel /\ [][NextLevel]_vars

\* ------------------------------------------------------------ properties

\* The steps of the main loop, as the properties below name them.
\* A per-tick update: the step from "update" to "control".
IsUpdate == pc = "update" /\ pc' = "control"

\* An interaction: control() run with the interact key held.
IsInteract == pc = "control" /\ ~animation.on /\ keys'.key = "e"

\* The player's cell is next to an item with the given feature name.
NextTo(name) == \E n \in 1..Len(Interact) : Interact[n].name = name /\ pos(Cur) \in Interact[n].place

\* C1: the stock (potato) is never negative in any reachable state, whatever
\* per-tick updates and interactions (forward, backward, stop, bush, crate)
\* have been made and at whatever cell.
C1_StockNeverNegative == potato >= 0

\* C1, its case: an interaction made next to forward has left a stock that
\* is lower than the cost of forward.
C1_Witness ==
  /\ pc = "events" /\ keys.key = "e" /\ NextTo("forward")
  /\ potato < ForwardCost /\ potato < InitPotato

\* C2, as stated: no step taken from a state in which is_time_stopped holds
\* lowers the deadline.
C2_NoDecrementWhileStopped ==
  [][is_time_stopped = TRUE => deadline' >= deadline]_vars

\* C2, amended: a per-tick update made while is_time_stopped holds and the
\* stop-countdown is above 0 leaves the deadline as it is; the per-tick update
\* that finds the stop-countdown at 0 clears is_time_stopped and lowers a
\* deadline other than 0 by 1; an interaction made while is_time_stopped holds
\* lowers the deadline only when it is a forward that is paid for, and then by
\* the rewind amount.
C2_DeadlineHeldWhileStopped ==
  [][/\ (IsUpdate /\ is_time_stopped = TRUE /\ stoppedtime > 0) => deadline' = deadline
     /\ (IsUpdate /\ is_time_stopped = TRUE /\ stoppedtime = 0) =>
          /\ is_time_stopped' = FALSE
          /\ deadline' = IF deadline # 0 THEN deadline - 1 ELSE deadline
     /\ (pc = "control" /\ is_time_stopped = TRUE /\ deadline' < deadline) =>
          /\ IsInteract /\ NextTo("forward") /\ potato >= ForwardCost
          /\ deadline' = deadline - ForwardAmount]_vars

\* C2, its case: time is stopped and a forward has been made after the stop.
C2_Witness ==
  /\ pc = "events" /\ keys.key = "e" /\ NextTo("forward")
  /\ is_time_stopped = TRUE /\ potato = InitPotato - StopCost - ForwardCost

\* C3: the session ends with a win when donation == goal: once the donation
\* equals the goal at the end-of-tick check, that check stops the tick loop
\* (game_over becomes true in that tick).
C3_WinEndsSession ==
  [][(pc = "events" /\ donation = needed) => game_over' = TRUE]_vars

\* C4: a crate interaction made with stock > 0 from a cell next to a crate
\* moves the largest step of the ladder 500, 250, 125, 62, ... that is <= stock
\* from the stock to the donation, so that stock + donation stays the same.
C4_CrateTransfersLadderStep ==
  [][(IsInteract /\ NextTo("crate") /\ potato > 0) =>
       /\ Coef(potato, LadderTop) > 0
       /\ potato' = potato - Coef(potato, LadderTop)
       /\ donation' = donation + Coef(potato, LadderTop)]_vars

\* C5: in a state with deadline == 0, goal != 0 and donation != goal, the
\* end-of-tick check of the tick ends the session: game_over becomes true.
C5_LossOnNextTickCheck ==
  [][(pc = "events" /\ deadline = 0 /\ needed # 0 /\ donation # needed) =>
       game_over' = TRUE]_vars

\* C6: the deadline is never negative in any reachable state, whatever
\* per-tick updates and interactions (forward among them) have been made.
C6_DeadlineNeverNegative == deadline >= 0

\* A bush that is planted and not yet grown: its timer is counting down.
Growing(j) == j.is_done = FALSE /\ j.timeleft > 0

\* C7, as stated: every per-tick update, made with time stopped or not,
\* lowers by exactly 1 the timer of every bush that is not yet grown and has
\* a positive timer, so that a bush planted with timer T is grown after T
\* per-tick updates.
C7_EveryUpdateGrows ==
  [][IsUpdate =>
       \A k \in 1..NBush :
         Growing(bushstuff[k]) => bushstuff'[k].timeleft = bushstuff[k].timeleft - 1]_vars

\* C7, amended: a per-tick update made while is_time_stopped holds and the
\* stop-countdown is above 0 leaves every bush as it is; any other per-tick
\* update lowers by exactly 1 the timer of every bush that is not yet grown
\* and has a positive timer, marks the bush grown when the timer reaches 0, and
\* leaves the other bushes as they are.  So a bush planted with timer T is
\* grown, with timer 0, after T per-tick updates made while time is not
\* stopped, if no forward or backward is made in between.
C7_UpdateGrowsUnlessStopped ==
  [][IsUpdate =>
       \A k \in 1..NBush :
         IF is_time_stopped = TRUE /\ stoppedtime > 0
         THEN bushstuff'[k] = bushstuff[k]
         ELSE IF Growing(bushstuff[k])
         THEN /\ bushstuff'[k].timeleft = bushstuff[k].timeleft - 1
              /\ bushstuff'[k].is_done = (bushstuff[k].timeleft = 1)
         ELSE bushstuff'[k] = bushstuff[k]]_vars

\* C7, its case: a per-tick update has been made with time stopped while a
\* bush was growing.
C7_Witness ==
  /\ pc = "control" /\ ticks >= 1 /\ is_time_stopped = TRUE
  /\ \E k \in 1..NBush : Growing(bushstuff[k])

\* C8: a forward interaction made with stock >= the forward cost lowers the
\* stock by the cost and the deadline by the rewind amount, lowers the timer
\* of every planted, not yet grown bush by one time-step, and does nothing
\* else: it adds nothing to the stock, harvests no bush and resets no bush to
\* idle.  (Stated for the cells next to forward and to no bush.)
C8_ForwardEffects ==
  [][(IsInteract /\ NextTo("forward") /\ ~NextTo("bush") /\ potato >= ForwardCost) =>
       /\ crashed' = FALSE
       /\ potato' = potato - ForwardCost
       /\ deadline' = deadline - ForwardAmount
       /\ \A k \in 1..NBush :
            bushstuff'[k] = IF Growing(bushstuff[k])
                            THEN [bushstuff[k] EXCEPT !.timeleft = @ + ForwardShift * FPS]
                            ELSE bushstuff[k]]_vars

\* What the backward row asks of a bush: its timer raised by one time-step,
\* the bush reset to idle when the raised timer is above the cap.
Delayed(j) ==
  IF j.timeleft + BackwardShift * FPS > AffectCap THEN IdleBush
  ELSE [j EXCEPT !.timeleft = @ + BackwardShift * FPS]

\* C9, as stated: a backward interaction made with stock >= the backward cost
\* lowers the stock by the cost, raises the deadline by the amount, and raises
\* the timer of every planted bush (growing or grown) by one time-step, the
\* bush staying planted unless the raised timer is above the cap, when it is
\* reset to idle.
C9_BackwardDelaysPlanted ==
  [][(IsInteract /\ NextTo("backward") /\ ~NextTo("bush") /\ potato >= BackwardCost) =>
       /\ potato' = potato - BackwardCost
       /\ deadline' = deadline + BackwardAmount
       /\ \A k \in 1..NBush :
            bushstuff[k].timeleft >= 0 => bushstuff'[k] = Delayed(bushstuff[k])]_vars

\* C9, amended: a backward interaction made with stock >= the backward cost
\* lowers the stock by the cost and raises the deadline by the amount; every
\* planted, not yet grown bush is reset to idle (its raised timer is always
\* above the cap), and every grown or idle bush is left as it is.
C9_BackwardResetsGrowing ==
  [][(IsInteract /\ NextTo("backward") /\ ~NextTo("bush") /\ potato >= BackwardCost) =>
       /\ crashed' = FALSE
       /\ potato' = potato - BackwardCost
       /\ deadline' = deadline + BackwardAmount
       /\ \A k \in 1..NBush :
            bushstuff'[k] = IF Growing(bushstuff[k]) THEN IdleBush ELSE bushstuff[k]]_vars

\* C9, its case: a backward has been paid for and a growing bush is idle again
\* (no other interaction raises the deadline).
C9_Witness ==
  /\ pc = "events" /\ keys.key = "e" /\ NextTo("backward")
  /\ potato = InitPotato - BackwardCost
  /\ deadline > InitDeadline
  /\ \A k \in 1..NBush : bushstuff[k] = IdleBush

\* C10: when the stop-countdown of an active time-stop has expired, the
\* per-tick update clears is_time_stopped and resets the stop-countdown to its
\* configured duration, the value it had before the first time-stop, so that
\* every time-stop period lasts the same number of ticks.
C10_CountdownResetToConfigured ==
  [][(IsUpdate /\ is_time_stopped = TRUE /\ stoppedtime = 0) =>
       /\ is_time_stopped' = FALSE
       /\ stoppedtime' = InitStoppedTime]_vars

\* The player's cell is next to bushes and to no other interact zone.
BushOnly == NextTo("bush") /\ \A n \in 1..Len(Interact) :
              pos(Cur) \in Interact[n].place => Interact[n].name = "bush"

\* C11: a bush interaction on a mid-growth bush (not grown, its timer still
\* counting) changes no state: is_grown and grow-timer of every bush, the
\* stock, the deadline and the donation are after it what they were before.
C11_MidGrowthNoEffect ==
  [][(IsInteract /\ BushOnly /\ Growing(bushstuff[BushIndex(pos(Cur))])) =>
       UNCHANGED <<bushstuff, potato, deadline, donation>>]_vars

\* C11, its case: the interact key has been pressed next to a bush whose timer
\* had already counted down from the full duration.
C11_Witness ==
  /\ pc = "events" /\ keys.key = "e" /\ BushOnly
  /\ Growing(bushstuff[BushIndex(pos(Cur))])
  /\ bushstuff[BushIndex(pos(Cur))].timeleft < GrowTime

\* The player's cell is next to one bush and to no other interact zone.
SingleBush ==
  BushOnly /\ Cardinality({n \in 1..Len(Interact) : pos(Cur) \in Interact[n].place}) = 1

\* What the bush row asks of an interaction on bush b: an idle bush planted
\* with the full duration and the stock kept, a grown bush harvested and reset
\* to idle, any other bush state left alone; no other bush changed.
ThreeWay(b) ==
  IF bushstuff[b].is_done = FALSE /\ bushstuff[b].timeleft < 0
  THEN /\ bushstuff' = [bushstuff EXCEPT ![b].timeleft = GrowTime]
       /\ potato' = potato
  ELSE IF bushstuff[b].is_done = TRUE /\ bushstuff[b].timeleft = 0
  THEN /\ bushstuff' = [bushstuff EXCEPT ![b] = IdleBush]
       /\ potato' = potato + HarvestYield
                     + (IF is_time_stopped = TRUE THEN StopBonus ELSE 0)
  ELSE UNCHANGED <<bushstuff, potato>>

\* C12, as stated: the bush interaction is three-way on the bush of the zone
\* triggered, whatever the stock: idle -> planted with the full duration,
\* stock unchanged; grown -> harvested, the yield (and the bonus exactly when
\* is_time_stopped) added to the stock, the bush reset to idle; no other bush
\* changes.
C12_BushThreeWay ==
  [][(IsInteract /\ SingleBush) => ThreeWay(BushIndex(pos(Cur)))]_vars

\* C12, amended: the three-way bush interaction is made only when
\* 0 <= stock < maxcapacity (500); with a stock of 500 or more the bush
\* interaction changes neither the bushes nor the stock.
C12_BushThreeWayBelowCapacity ==
  [][(IsInteract /\ SingleBush) =>
       IF potato >= 0 /\ maxcapacity > potato
       THEN ThreeWay(BushIndex(pos(Cur)))
       ELSE UNCHANGED <<bushstuff, potato>>]_vars

\* C12, its case: a grown bush has been harvested while time was stopped, the
\* bonus added to the yield.
C12_Witness ==
  /\ pc = "events" /\ keys.key = "e" /\ SingleBush /\ is_time_stopped = TRUE
  /\ potato = InitPotato - StopCost + HarvestYield + StopBonus
  /\ bushstuff[BushIndex(pos(Cur))] = IdleBush

\* The bush zones the player's cell is next to, by their index in bushstuff.
BushesHere == {k \in 1..NBush : pos(Cur) \in BushPlaces[k]}

\* The first-registered of them.
FirstBushHere == CHOOSE k \in BushesHere : \A k2 \in BushesHere : k <= k2

\* C13: when the player's cell is next to several zones of the same feature
\* type, one interaction applies the feature's effect once, to the
\* first-registered matching zone and its own bush state.  (Stated for bush
\* zones, with a stock that pays for no forward, backward or stop, so that
\* only the bush zones can act.)
C13_FirstMatchWins ==
  [][(/\ IsInteract /\ Cardinality(BushesHere) >= 2
      /\ potato >= 0 /\ potato < ForwardCost /\ potato < BackwardCost /\ potato < StopCost)
       => ThreeWay(FirstBushHere)]_vars

\* The cell n steps from the player's cell in direction d is blocking.
BlockedAt(d, n) ==
  is_blocking(pos(Cur)[1] + n * DX[d + 1], pos(Cur)[2] + n * DY[d + 1])

\* The run multiplier asked for by the keys of a walk: 3 when running with
\* time stopped, 2 when running, 1 otherwise.
Asked(shift) ==
  IF shift /\ is_time_stopped = TRUE THEN 3
  ELSE IF shift /\ weight = FALSE THEN 2
  ELSE 1

\* The player stands (no walk under way) on a cell that is inside the grid
\* and not blocking.
RestsFree == ~animation.on => ~BlockedAt(0, 0)

\* A walk: control() run with a direction key held.
IsWalk ==
  pc = "control" /\ ~animation.on /\ keys'.key \in {"up", "down", "left", "right"}

\* C18: a walk never brings the player to rest on a blocking or out-of-grid
\* cell.  No move starts when the adjacent cell is blocking; otherwise the
\* move is made with the run multiplier (1, 2, or 3 while time is stopped),
\* downgraded to 1 when the multiplied destination is blocking; the move
\* shifts the player by 24 * multiplier pixels per cell, and ends on a cell.
C18_WalkRestsOnFreeCell ==
  /\ RestsFree
  /\ [][/\ RestsFree'
        /\ IsWalk =>
             IF BlockedAt(KeyDir(keys'.key), 1)
             THEN ~animation.on' /\ px' = px /\ py' = py
             ELSE /\ animation.on' /\ direction' = KeyDir(keys'.key)
                  /\ animation.mult' =
                       IF BlockedAt(KeyDir(keys'.key), Asked(keys'.shift))
                       THEN 1 ELSE Asked(keys'.shift)
        /\ (IsUpdate /\ animation.on /\ animation.calls >= 1) =>
             /\ px' = px + 3 * animation.mult * DX[direction + 1]
             /\ py' = py + 2 * animation.mult * DY[direction + 1]
             /\ animation.on' = (animation.calls < 8)
             /\ ~animation.on' => (px' - 12) % 24 = 0 /\ (py' - 16) % 16 = 0]_vars

\* C18, its case: a run asked for with time stopped (multiplier 3) has been
\* downgraded to a walk of one cell, the multiplied destination blocking.
C18_Witness ==
  /\ pc = "events" /\ keys.shift /\ is_time_stopped = TRUE
  /\ animation.on /\ animation.mult = 1

\* C21: a walk never carries the player across a blocking cell: when a walk
\* starts, with whatever multiplier (1, 2 or 3), every cell from the one next
\* to the start cell up to and including the destination is non-blocking.
C21_WalkCrossesNoBlocker ==
  [][(IsWalk /\ animation.on') =>
       \A n \in 1..animation.mult' : ~BlockedAt(KeyDir(keys'.key), n)]_vars

\* C19: no interaction aborts the session: in every reachable state and at
\* every player cell, cells next to forward or backward while a bush is
\* planted among them, interact() completes without raising.
C19_InteractNeverRaises == crashed = FALSE

Constructed == lv.phase \in {"loaded", "rendered"}

\* the cells of the map whose symbol has no section
Unknown(map) == {cell \in Cells(map) : Symbol(map, cell) \notin Sections}

\* the cell exists and is a wall: a neighbour outside the grid is no wall
RealWall(map, x, y) == <<x, y>> \in Cells(map) /\ MapWall(map, x, y)

\* every row is as long as the first
Rectangular(map) == \A n \in 1..Len(map) : Len(map[n]) = Len(map[1])

WallCells(map) == {cell \in Cells(map) : MapWall(map, cell[1], cell[2])}

\* the wall cells whose south neighbour is not a wall
TopWalls(map) == {cell \in WallCells(map) : ~RealWall(map, cell[1], cell[2] + 1)}

EastWest(map, cell) ==
  <<RealWall(map, cell[1] + 1, cell[2]), RealWall(map, cell[1] - 1, cell[2])>>

EastWestSouth(map, cell) ==
  <<RealWall(map, cell[1] + 1, cell[2]), RealWall(map, cell[1] - 1, cell[2]),
    RealWall(map, cell[1], cell[2] + 1)>>

\* C14: loading a level file that gives a tileset and a map whose grid has a
\* symbol without an attribute section succeeds, and every such cell is
\* ground: not a wall, not blocking, and no item is placed on it.
C14_UnknownSymbolLoadsAsGround ==
  (Constructed /\ lv.src.tileset /\ lv.src.hasmap /\ Unknown(lv.src.rows) # {})
    => /\ lv.status = "loaded"
       /\ \A cell \in Unknown(lv.src.rows) :
            /\ cell \notin lv.items
            /\ ~MapWall(lv.map, cell[1], cell[2])
            /\ Attr(MapTile(lv.map, cell[1], cell[2]), "block") \notin TrueLiterals

\* C15: loading fails, and no level is produced, whenever a row of the map
\* differs in length from the first row or the tileset or the map entry is
\* missing: a level that was loaded is never non-rectangular.
C15_MalformedLevelRejected ==
  (Constructed /\ (\/ ~lv.src.tileset
                   \/ ~lv.src.hasmap
                   \/ ~Rectangular(lv.src.rows)))
    => lv.status # "loaded"

\* C16: for the wall cells whose south neighbour is not a wall, the tile
\* render chooses is a function of (east is a wall, west is a wall) alone:
\* any two such cells, of the drawn map and of any rectangular map, get the
\* same tile exactly when they agree on that pair.
C16_TopFaceByEastWest ==
  (lv.phase = "rendered" /\ Rectangular(lv.map)) =>
    \A c1 \in TopWalls(lv.map) : \A g \in Grids : \A c2 \in TopWalls(g) :
       (EastWest(lv.map, c1) = EastWest(g, c2))
         <=> (lv.tiles[c1] = RenderTile(g, c2[1], c2[2]))

\* C17 as stated: the tile of a wall cell is determined by whether its east,
\* west and south neighbours are walls: the drawn map and any rectangular
\* map that agree on those three neighbours of a wall cell give it the same
\* tile, also when the south neighbour is a wall.
C17_TileByEastWestSouth ==
  (lv.phase = "rendered" /\ Rectangular(lv.map)) =>
    \A c \in WallCells(lv.map) : \A g \in Grids :
       (c \in WallCells(g) /\ EastWestSouth(lv.map, c) = EastWestSouth(g, c))
         => lv.tiles[c] = RenderTile(g, c[1], c[2])

\* The walls render looks up for the wall cell at (x, y), as is_wall answers
\* (an index of -1 is the last cell of the row): the south cell, then the
\* east and west cells of the same row when the south cell is no wall, and
\* of the row below (south-east, south-west) when it is one.
LookedUp(map, x, y) ==
  IF ~MapWall(map, x, y + 1)
    THEN <<FALSE, MapWall(map, x + 1, y), MapWall(map, x - 1, y)>>
    ELSE <<TRUE, MapWall(map, x + 1, y + 1), MapWall(map, x - 1, y + 1)>>

\* column by the two side walls, row 2 for a wall top and 1 for a wall body
FaceOf(l) == <<Variant(l[2], l[3]), IF l[1] THEN 1 ELSE 2>>

\* C17 (amended): for every wall cell, the tile render chooses is determined
\* by three walls as is_wall answers: the south cell, and the east and west
\* cells of the same row when the south cell is not a wall, but the
\* south-east and south-west cells when the south cell is a wall.
C17_TileByLookedUpWalls ==
  lv.phase = "rendered" =>
    \A c \in WallCells(lv.map) : lv.tiles[c] = FaceOf(LookedUp(lv.map, c[1], c[2]))

\* a drawn wall body whose east cell is a wall and south-east cell is not:
\* its tile is the one of no side walls
C17_Witness ==
  /\ lv.phase = "rendered"
  /\ lv.map \in Grids
  /\ MapWall(lv.map, 1, 0) /\ MapWall(lv.map, 1, 1)
  /\ MapWall(lv.map, 2, 0) /\ MapWall(lv.map, 0, 0)
  /\ ~MapWall(lv.map, 2, 1) /\ ~MapWall(lv.map, 0, 1)
  /\ lv.tiles[<<1, 0>>] = <<3, 1>>

\* C22: every time-stop ends: in a session that is not ended (no QUIT event,
\* no loss), from any state with is_time_stopped true and whatever
\* interactions the player performs, is_time_stopped becomes false after
\* finitely many iterations of the loop.
C22_EveryTimeStopEnds == (is_time_stopped = TRUE) ~> (is_time_stopped = FALSE \/ game_over)

\* C23: on a loaded level, get_tile returns the empty attribute set for every
\* coordinate outside the grid (x < 0, y < 0, x >= width or y >= height), so
\* is_wall is false for every out-of-grid neighbour render consults at the
\* edges of the map: north of row 0, west of column 0, east of the last
\* column and south of the last row.
C23_OutsideGridIsEmpty ==
  (Constructed /\ lv.status = "loaded" /\ Rectangular(lv.map)) =>
    \A x \in -1..lv.width : \A y \in -1..lv.height :
       (x < 0 \/ y < 0 \/ x >= lv.width \/ y >= lv.height)
         => /\ MapTile(lv.map, x, y) = NoAttrs
            /\ ~MapWall(lv.map, x, y)

====
